---- MODULE Spec2Model ----
(***************************************************************************)
(* Model of package_updater.py: the PackageUpdater object, its command     *)
(* executor, its three output parsers and the sequencing done by           *)
(* full_update_and_clean and main.                                         *)
(*                                                                         *)
(* Text is a sequence of one-character strings, so that strip, split,      *)
(* startswith, "in" and the regular expression are computed character by   *)
(* character as Python computes them.                                      *)
(***************************************************************************)
EXTENDS Integers, Sequences, FiniteSets, TLC

VARIABLES
    dry_run,             \* self.dry_run
    verbose,             \* self.verbose
    check_only,          \* args.check_only
    updatable_packages,  \* self.updatable_packages
    removable_packages,  \* self.removable_packages
    pc,                  \* the statement of main / full_update_and_clean to run next
    success,             \* the local `success` of full_update_and_clean
    ret,                 \* return value of each phase method that has returned
    calls,               \* argument vectors handed to subprocess.run, in order, each
                         \* with the outcome of its child process
    printed,             \* lines written to standard output, in order
    exit_status,         \* the process exit status, -1 while running
    list_lines,          \* the lines `apt list --upgradable` prints on this host
    flatpak_lines,       \* the lines `flatpak remote-ls --updates` prints on this host
    autoremove_lines,    \* the lines `apt autoremove --dry-run` prints on this host
    first_run            \* what an earlier run of the program on this host did, if any

vars == <<dry_run, verbose, check_only, updatable_packages, removable_packages,
          pc, success, ret, calls, printed, exit_status,
          list_lines, flatpak_lines, autoremove_lines, first_run>>

(***************************************************************************)
(* Bounds of the explored inputs.                                          *)
(***************************************************************************)
MaxLineLen == 8   \* longest generated single listing line, in characters
MaxLines == 3     \* most lines in a listing assembled from ListingLines
MaxReportLines == 4   \* most lines in a removal report assembled from RemovalLines

(***************************************************************************)
(* Text primitives (Python str methods).                                   *)
(***************************************************************************)
NL == "\n"
TAB == "\t"
SP == " "

\* str.isspace for one character, as used by strip(), split() and \s
IsSpace(c) == c \in {SP, TAB, NL}

\* `sub in s` for a one-character sub
HasChar(s, c) == \E i \in 1..Len(s) : s[i] = c

\* s.startswith(prefix)
StartsWith(s, prefix) ==
    /\ Len(prefix) <= Len(s)
    /\ SubSeq(s, 1, Len(prefix)) = prefix

\* `sub in s` for a substring
Contains(s, sub) ==
    \E i \in 0..(Len(s) - Len(sub)) : SubSeq(s, i + 1, i + Len(sub)) = sub

RECURSIVE LStrip(_)
LStrip(s) == IF s # <<>> /\ IsSpace(Head(s)) THEN LStrip(Tail(s)) ELSE s

RECURSIVE RStrip(_)
RStrip(s) ==
    IF s # <<>> /\ IsSpace(s[Len(s)]) THEN RStrip(SubSeq(s, 1, Len(s) - 1)) ELSE s

\* s.strip()
Strip(s) == RStrip(LStrip(s))

\* s.split(d) for a one-character delimiter: never empty, '' gives ['']
\* s.find(d) for a one-character d that occurs in s
Find(s, d) == CHOOSE k \in 1..Len(s) : s[k] = d /\ \A j \in 1..(k - 1) : s[j] # d

RECURSIVE Split(_, _)
SplitAt(s, d, i) == <<SubSeq(s, 1, i - 1)>> \o Split(SubSeq(s, i + 1, Len(s)), d)
Split(s, d) == IF ~HasChar(s, d) THEN <<s>> ELSE SplitAt(s, d, Find(s, d))

\* s.split(): maximal runs of non-whitespace, none for a blank string
\* the end of the run of non-whitespace that starts t
WordEnd(t) ==
    CHOOSE k \in 1..Len(t) :
        /\ \A j \in 1..k : ~IsSpace(t[j])
        /\ (k = Len(t) \/ IsSpace(t[k + 1]))

RECURSIVE Words(_)
WordsFrom(t, e) == <<SubSeq(t, 1, e)>> \o Words(SubSeq(t, e + 1, Len(t)))
WordsOf(t) == IF t = <<>> THEN <<>> ELSE WordsFrom(t, WordEnd(t))
Words(s) == WordsOf(LStrip(s))

\* the captured standard output of a child that writes these lines
RECURSIVE Stdout(_)
Stdout(lines) ==
    IF lines = <<>> THEN <<>> ELSE Head(lines) \o <<NL>> \o Stdout(Tail(lines))

(***************************************************************************)
(* Literal texts of the source.                                            *)
(***************************************************************************)
\* 'Listing...'
ListingPrefix == <<"L", "i", "s", "t", "i", "n", "g", ".", ".", ".">>

\* 'The following packages will be REMOVED:'
RemovedHeader ==
    <<"T", "h", "e", " ", "f", "o", "l", "l", "o", "w", "i", "n", "g", " ",
      "p", "a", "c", "k", "a", "g", "e", "s", " ", "w", "i", "l", "l", " ",
      "b", "e", " ", "R", "E", "M", "O", "V", "E", "D", ":">>

\* ' ' * 3
Indent == <<SP, SP, SP>>

(***************************************************************************)
(* re.match(r'^([^/]+)/(?:\S+)\s+(\S+)\s+(\S+).*$', line)                  *)
(*                                                                         *)
(* A match is the tuple of end positions of the six quantified pieces.     *)
(* All quantifiers are greedy, so the backtracking matcher returns the     *)
(* lexicographically greatest tuple.  <<>> stands for None.                *)
(***************************************************************************)
\* the character classes [^/], \S, \s and .
InClass(cls, c) ==
    IF cls = "[^/]" THEN c # "/"
    ELSE IF cls = "\\S" THEN ~IsSpace(c)
    ELSE IF cls = "\\s" THEN IsSpace(c)
    ELSE c # NL

\* end positions e >= p of a non-empty run line[p..e] of characters of class cls
RunEnds(line, p, cls) ==
    {e \in p..Len(line) : \A k \in p..e : InClass(cls, line[k])}

\* the partial matches of S, each extended by one run that starts off positions
\* after its last end
Extend(S, line, off, cls) ==
    UNION {{Append(t, e) : e \in RunEnds(line, t[Len(t)] + off, cls)} : t \in S}

RECURSIVE LexGreater(_, _)
LexGreater(t, u) ==
    IF t = <<>> THEN FALSE
    ELSE IF Head(t) # Head(u) THEN Head(t) > Head(u)
    ELSE LexGreater(Tail(t), Tail(u))

\* ^([^/]+)/
MatchName(line) ==
    {<<e>> : e \in {x \in RunEnds(line, 1, "[^/]") :
                       x + 1 <= Len(line) /\ line[x + 1] = "/"}}

\* .*$
MatchRest(S, line) ==
    {t \in S : \A k \in (t[Len(t)] + 1)..Len(line) : InClass(".", line[k])}

UpgradableMatches(line) ==
    MatchRest(
      Extend(                                   \* (\S+)
        Extend(                                 \* \s+
          Extend(                               \* (\S+)
            Extend(                             \* \s+
              Extend(MatchName(line),           \* (?:\S+)
                     line, 2, "\\S"),
              line, 1, "\\s"),
            line, 1, "\\S"),
          line, 1, "\\s"),
        line, 1, "\\S"),
      line)

\* the match the greedy quantifiers find first
Greedy(M) == CHOOSE x \in M : \A y \in M : ~LexGreater(y, x)

\* variant: the second and third groups exchanged
GroupsExchanged(line, t) ==
    <<SubSeq(line, 1, t[1]), SubSeq(line, t[5] + 1, t[6]), SubSeq(line, t[3] + 1, t[4])>>

\* match.group(1), match.group(2), match.group(3)
Groups(line, t) ==
    <<SubSeq(line, 1, t[1]), SubSeq(line, t[3] + 1, t[4]), SubSeq(line, t[5] + 1, t[6])>>

MatchOf(line, M) == IF M = {} THEN <<>> ELSE Groups(line, Greedy(M))

UpgradableMatch(line) == MatchOf(line, UpgradableMatches(line))

(***************************************************************************)
(* The parsing loop of check_apt_updates.                                  *)
(***************************************************************************)
\* variant: only the introduction line itself is set aside
UpgradableLineSelectedUnlessIntro(line) ==
    /\ line # <<>>
    /\ HasChar(line, "/")
    /\ line # ListingPrefix

\* the condition of the `if` guarding the match
UpgradableLineSelected(line) ==
    /\ line # <<>>
    /\ HasChar(line, "/")
    /\ ~StartsWith(line, ListingPrefix)

\* the dictionaries appended for one line: none or one
UpgradableOfMatch(m) ==
    IF m # <<>> THEN <<[name |-> m[1], current |-> m[2], available |-> m[3]]>> ELSE <<>>

UpgradableOfLine(line) ==
    IF UpgradableLineSelected(line) THEN UpgradableOfMatch(UpgradableMatch(line)) ELSE <<>>

RECURSIVE UpgradableOfLines(_)
UpgradableOfLines(lines) ==
    IF lines = <<>> THEN <<>>
    ELSE UpgradableOfLine(Head(lines)) \o UpgradableOfLines(Tail(lines))

ParseUpgradable(output) == UpgradableOfLines(Split(Strip(output), NL))

(***************************************************************************)
(* The parsing loop of check_flatpak_updates.                              *)
(***************************************************************************)
FlatpakOfParts(parts) ==
    IF Len(parts) >= 3
    THEN <<[name |-> parts[1], arch |-> parts[2], branch |-> parts[3]]>>
    ELSE <<>>

FlatpakOfLine(line) == IF line # <<>> THEN FlatpakOfParts(Split(line, TAB)) ELSE <<>>

RECURSIVE FlatpakOfLines(_)
FlatpakOfLines(lines) ==
    IF lines = <<>> THEN <<>>
    ELSE FlatpakOfLine(Head(lines)) \o FlatpakOfLines(Tail(lines))

ParseFlatpak(output) == FlatpakOfLines(Split(Strip(output), NL))

(***************************************************************************)
(* The parsing loop of check_autoremove: a scan with the flag              *)
(* in_package_list and the list built so far; `break` ends the scan.       *)
(***************************************************************************)
InSeq(x, s) == \E i \in 1..Len(s) : s[i] = x

\* variant: a name already in the list is appended again
WithNameRepeated(packages, package_name) ==
    IF package_name # <<>> THEN Append(packages, package_name) ELSE packages

\* the list after the innermost `if` of the loop body
WithName(packages, package_name) ==
    IF package_name # <<>> /\ ~InSeq(package_name, packages)
    THEN Append(packages, package_name)
    ELSE packages

RECURSIVE RemovableScan(_, _, _)
\* variant: the scan goes on after a line that is not indented
RemovableStepWithoutBreak(line, rest, in_package_list, packages) ==
    IF Contains(line, RemovedHeader) THEN RemovableScan(rest, TRUE, packages)
    ELSE IF in_package_list /\ Strip(line) # <<>> /\ StartsWith(line, Indent)
    THEN RemovableScan(rest, in_package_list, WithName(packages, Words(Strip(line))[1]))
    ELSE RemovableScan(rest, in_package_list, packages)

RemovableStep(line, rest, in_package_list, packages) ==
    IF Contains(line, RemovedHeader)
    THEN RemovableScan(rest, TRUE, packages)
    ELSE IF in_package_list /\ Strip(line) # <<>> /\ ~StartsWith(line, Indent)
    THEN packages
    ELSE IF in_package_list /\ Strip(line) # <<>>
    THEN RemovableScan(rest, in_package_list,
                       WithName(packages, Words(Strip(line))[1]))
    ELSE RemovableScan(rest, in_package_list, packages)

RemovableScan(lines, in_package_list, packages) ==
    IF lines = <<>> THEN packages
    ELSE RemovableStep(Head(lines), Tail(lines), in_package_list, packages)

ParseRemovable(output) == RemovableScan(Split(Strip(output), NL), FALSE, <<>>)

(***************************************************************************)
(* Argument vectors of the external commands.                              *)
(***************************************************************************)
CmdAptUpdate == "sudo apt update"
CmdAptList == "apt list --upgradable"
CmdWhichFlatpak == "which flatpak"
CmdFlatpakList == "flatpak remote-ls --updates"
CmdAutoremoveDryRun == "apt autoremove --dry-run"
CmdAptUpgrade == "sudo apt upgrade -y"
CmdFlatpakUpdate == "flatpak update -y"
CmdAutoremove == "sudo apt autoremove -y"
CmdAutoclean == "sudo apt autoclean"

CheckCommands ==
    {CmdAptUpdate, CmdAptList, CmdWhichFlatpak, CmdFlatpakList, CmdAutoremoveDryRun}
ApplyCommands == {CmdAptUpgrade, CmdFlatpakUpdate, CmdAutoremove, CmdAutoclean}

(***************************************************************************)
(* run_command.  The outcome of the child process is the environment's:    *)
(* exit status 0, a non-zero exit status, or subprocess.run raising.       *)
(***************************************************************************)
Outcomes == {"exit0", "nonzero", "launch_error"}

\* str(e) of a launch failure
LaunchErrorText == <<"[", "E", "r", "r", "n", "o", " ", "2", "]">>

Msg(text, arg, n) == [text |-> text, arg |-> arg, n |-> n]

RECURSIVE PackageLines(_, _)
PackageLines(text, n) ==
    IF n = 0 THEN <<>> ELSE Append(PackageLines(text, n - 1), Msg(text, "", n))

\* variant: a launch failure is reported as success
run_command_launch_ok(command, outcome, stdout) ==
    [success |-> outcome # "nonzero",
     output  |-> IF outcome = "launch_error" THEN LaunchErrorText ELSE stdout,
     calls   |-> <<[command |-> command, outcome |-> outcome]>>,
     printed |-> IF verbose
                 THEN <<Msg("Running:", command, 0)>> \o
                      (IF outcome = "nonzero" THEN <<Msg("Command failed:", command, 0)>>
                       ELSE IF outcome = "launch_error"
                       THEN <<Msg("Error running command:", command, 0)>>
                       ELSE <<>>)
                 ELSE <<>>]

\* (success, stdout) with what was handed to subprocess.run and what was printed
run_command(command, outcome, stdout) ==
    [success |-> outcome = "exit0",
     output  |-> IF outcome = "launch_error" THEN LaunchErrorText ELSE stdout,
     calls   |-> <<[command |-> command, outcome |-> outcome]>>,
     printed |-> IF verbose
                 THEN <<Msg("Running:", command, 0)>> \o
                      (IF outcome = "nonzero" THEN <<Msg("Command failed:", command, 0)>>
                       ELSE IF outcome = "launch_error"
                       THEN <<Msg("Error running command:", command, 0)>>
                       ELSE <<>>)
                 ELSE <<>>]

(***************************************************************************)
(* The phase methods.  Each gives its return value, the commands it ran,   *)
(* the lines it printed and the candidate lists it leaves.                 *)
(***************************************************************************)
Result(r, c, p, up, rm) ==
    [ret |-> r, calls |-> c, printed |-> p, updatable |-> up, removable |-> rm]

\* check_apt_updates after both commands ran and the listing was parsed
AptParsed(hello, r1, r2, packages) ==
    Result(TRUE, r1.calls \o r2.calls,
           hello \o r1.printed \o r2.printed \o
             (IF packages # <<>>
              THEN <<Msg("Found packages that can be updated:", "", Len(packages))>>
                   \o PackageLines("name: current -> available", Len(packages))
              ELSE <<Msg("All APT packages are up to date", "", 0)>>),
           packages, removable_packages)

AptListed(hello, r1, r2) ==
    IF ~r2.success
    THEN Result(FALSE, r1.calls \o r2.calls,
                hello \o r1.printed \o r2.printed
                  \o <<Msg("Failed to check upgradable packages", "", 0)>>,
                updatable_packages, removable_packages)
    ELSE AptParsed(hello, r1, r2, ParseUpgradable(r2.output))

\* variant: the result of the refresh is not looked at
AptRefreshedUnchecked(hello, r1, o2) ==
    AptListed(hello, r1, run_command(CmdAptList, o2, Stdout(list_lines)))

AptRefreshed(hello, r1, o2) ==
    IF ~r1.success
    THEN Result(FALSE, r1.calls,
                hello \o r1.printed \o <<Msg("Failed to update package lists", "", 0)>>,
                updatable_packages, removable_packages)
    ELSE AptListed(hello, r1, run_command(CmdAptList, o2, Stdout(list_lines)))

\* variant: a dry run does not refresh the package lists
check_apt_updates_refreshing_unless_dry(o1, o2) ==
    IF dry_run
    THEN AptListed(<<Msg("Checking for APT package updates...", "", 0)>>,
                   [success |-> TRUE, output |-> <<>>, calls |-> <<>>, printed |-> <<>>],
                   run_command(CmdAptList, o2, Stdout(list_lines)))
    ELSE AptRefreshed(<<Msg("Checking for APT package updates...", "", 0)>>,
                      run_command(CmdAptUpdate, o1, <<>>), o2)

check_apt_updates(o1, o2) ==
    AptRefreshed(<<Msg("Checking for APT package updates...", "", 0)>>,
                 run_command(CmdAptUpdate, o1, <<>>), o2)

FlatpakParsed(hello, r1, r2, flatpak_updates) ==
    Result(TRUE, r1.calls \o r2.calls,
           hello \o r1.printed \o r2.printed \o
             (IF flatpak_updates # <<>>
              THEN <<Msg("Found Flatpak packages that can be updated:", "",
                         Len(flatpak_updates))>>
                   \o PackageLines("name (arch)", Len(flatpak_updates))
              ELSE <<Msg("All Flatpak packages are up to date", "", 0)>>),
           updatable_packages, removable_packages)

FlatpakListed(hello, r1, r2) ==
    IF ~r2.success
    THEN Result(FALSE, r1.calls \o r2.calls,
                hello \o r1.printed \o r2.printed
                  \o <<Msg("Failed to check Flatpak updates", "", 0)>>,
                updatable_packages, removable_packages)
    ELSE FlatpakParsed(hello, r1, r2, ParseFlatpak(r2.output))

FlatpakProbed(hello, r1, o2) ==
    IF ~r1.success
    THEN Result(TRUE, r1.calls,
                hello \o r1.printed \o <<Msg("Flatpak not installed, skipping", "", 0)>>,
                updatable_packages, removable_packages)
    ELSE FlatpakListed(hello, r1, run_command(CmdFlatpakList, o2, Stdout(flatpak_lines)))

check_flatpak_updates(o1, o2) ==
    FlatpakProbed(<<Msg("Checking for Flatpak updates...", "", 0)>>,
                  run_command(CmdWhichFlatpak, o1, <<>>), o2)

AutoremoveParsed(hello, r1, packages) ==
    Result(TRUE, r1.calls,
           hello \o r1.printed \o
             (IF packages # <<>>
              THEN <<Msg("Found packages that can be removed:", "", Len(packages))>>
                   \o PackageLines("pkg", Len(packages))
              ELSE <<Msg("No orphaned packages found", "", 0)>>),
           updatable_packages, packages)

AutoremoveSimulated(hello, r1) ==
    IF ~r1.success
    THEN Result(FALSE, r1.calls,
                hello \o r1.printed
                  \o <<Msg("Failed to check autoremove candidates", "", 0)>>,
                updatable_packages, removable_packages)
    ELSE AutoremoveParsed(hello, r1, ParseRemovable(r1.output))

check_autoremove(o1) ==
    AutoremoveSimulated(<<Msg("Checking for orphaned packages...", "", 0)>>,
                        run_command(CmdAutoremoveDryRun, o1, Stdout(autoremove_lines)))

\* variant: an apply method that succeeded empties the candidate lists
AppliedClearing(opening, r1, ok_text, fail_text) ==
    IF r1.success
    THEN Result(TRUE, r1.calls, opening \o r1.printed \o <<Msg(ok_text, "", 0)>>,
                <<>>, <<>>)
    ELSE Result(FALSE, r1.calls, opening \o r1.printed \o <<Msg(fail_text, "", 0)>>,
                updatable_packages, removable_packages)

\* an apply method after its command ran
Applied(opening, r1, ok_text, fail_text) ==
    IF r1.success
    THEN Result(TRUE, r1.calls, opening \o r1.printed \o <<Msg(ok_text, "", 0)>>,
                updatable_packages, removable_packages)
    ELSE Result(FALSE, r1.calls, opening \o r1.printed \o <<Msg(fail_text, "", 0)>>,
                updatable_packages, removable_packages)

\* variant: the dry-run flag is not looked at
ApplyBodyAlways(opening, command, o1, ok_text, fail_text) ==
    Applied(opening, run_command(command, o1, <<>>), ok_text, fail_text)

\* the common shape of the four apply methods after their opening lines
ApplyBody(opening, command, o1, ok_text, fail_text) ==
    IF dry_run
    THEN Result(TRUE, <<>>, opening \o <<Msg("Dry run - would run:", command, 0)>>,
                updatable_packages, removable_packages)
    ELSE Applied(opening, run_command(command, o1, <<>>), ok_text, fail_text)

update_apt_packages(o1) ==
    IF updatable_packages = <<>>
    THEN Result(TRUE, <<>>, <<Msg("No APT packages to update", "", 0)>>,
                updatable_packages, removable_packages)
    ELSE ApplyBody(<<Msg("Updating APT packages...", "", Len(updatable_packages))>>,
                   CmdAptUpgrade, o1,
                   "APT packages updated successfully",
                   "Failed to update APT packages")

update_flatpak_packages(o1) ==
    ApplyBody(<<Msg("Updating Flatpak packages...", "", 0)>>,
              CmdFlatpakUpdate, o1,
              "Flatpak packages updated successfully",
              "Failed to update Flatpak packages")

\* variant: the removal list is not looked at
clean_orphaned_packages_unguarded(o1) ==
    ApplyBody(<<Msg("Removing orphaned packages...", "", Len(removable_packages))>>,
              CmdAutoremove, o1,
              "Orphaned packages removed successfully",
              "Failed to remove orphaned packages")

clean_orphaned_packages(o1) ==
    IF removable_packages = <<>>
    THEN Result(TRUE, <<>>, <<Msg("No packages to clean", "", 0)>>,
                updatable_packages, removable_packages)
    ELSE ApplyBody(<<Msg("Removing orphaned packages...", "", Len(removable_packages))>>,
                   CmdAutoremove, o1,
                   "Orphaned packages removed successfully",
                   "Failed to remove orphaned packages")

\* variant: the cache is cleaned with the autoremove command
clean_cache_by_autoremove(o1) ==
    ApplyBody(<<Msg("Cleaning package cache...", "", 0)>>,
              CmdAutoremove, o1,
              "Package cache cleaned successfully",
              "Failed to clean package cache")

clean_cache(o1) ==
    ApplyBody(<<Msg("Cleaning package cache...", "", 0)>>,
              CmdAutoclean, o1,
              "Package cache cleaned successfully",
              "Failed to clean package cache")

(***************************************************************************)
(* Inputs: the texts the listing commands print on the host.               *)
(***************************************************************************)
LineP == <<"p", "/", "s", " ", "1", " ", "2">>
LineQ == <<"q", "/", "s", " ", "1", " ", "2", " ", "x">>
LineNoSlash == <<"b", "a", "d">>
LineShort == <<"p", "/", "s", " ", "1">>
LineIntroPkg == ListingPrefix \o LineP
LineLeadSp == <<" ">> \o LineP
LineDone == <<"D", "o", "n", "e">>
LineAB == Indent \o <<"a", " ", "b">>
LineC == Indent \o <<"c">>
LineFlat == <<"n", TAB, "a", TAB, "b">>
LineA == Indent \o <<"a">>
LineTwoSp == <<" ", " ", "b">>
LineBlank == <<" ", " ">>

\* listings of the runs of the whole program
RunListings ==
    {<<>>, <<ListingPrefix, LineP>>, <<ListingPrefix, LineP, LineQ, LineNoSlash>>}
RunFlatpaks == {<<>>, <<LineFlat>>}
RunRemovals == {<<LineDone>>, <<LineDone, RemovedHeader, LineAB, LineC, LineDone>>}

\* listings of the parser runs: every single line over LineChars up to MaxLineLen,
\* and every listing of up to MaxLines lines of ListingLines
LineChars == {"p", "/", " "}
GeneratedLines == UNION {[1..n -> LineChars] : n \in 0..MaxLineLen}
ListingLines ==
    {LineP, LineQ, ListingPrefix, LineIntroPkg, LineNoSlash, LineShort, <<>>, LineLeadSp}
ParserListings ==
    {<<l>> : l \in GeneratedLines} \cup UNION {[1..n -> ListingLines] : n \in 0..MaxLines}

\* reports of the removal-parser runs: every report of up to MaxReportLines lines
\* of RemovalLines
RemovalLines ==
    {RemovedHeader, LineA, LineC, LineAB, LineDone, <<>>, LineBlank, LineTwoSp}
RemovalReports == UNION {[1..n -> RemovalLines] : n \in 0..MaxReportLines}

(***************************************************************************)
(* The program: main and full_update_and_clean.                            *)
(***************************************************************************)
Methods ==
    {"check_apt_updates", "check_flatpak_updates", "check_autoremove",
     "update_apt_packages", "update_flatpak_packages", "clean_orphaned_packages",
     "clean_cache", "full_update_and_clean"}

Constructed ==
    /\ updatable_packages = <<>>
    /\ removable_packages = <<>>
    /\ pc = "main"
    /\ success = TRUE       \* not yet assigned; set at the start of the apply phases
    /\ ret = [m \in Methods |-> "none"]
    /\ calls = <<>>
    /\ printed = <<>>
    /\ exit_status = -1

Init ==
    /\ dry_run \in BOOLEAN
    /\ verbose \in BOOLEAN
    /\ check_only \in BOOLEAN
    /\ list_lines \in RunListings
    /\ flatpak_lines \in RunFlatpaks
    /\ autoremove_lines \in RunRemovals
    /\ first_run = <<>>
    /\ Constructed

ParserInit ==
    /\ dry_run = FALSE
    /\ verbose = FALSE
    /\ check_only = TRUE
    /\ list_lines \in ParserListings
    /\ flatpak_lines = <<>>
    /\ autoremove_lines = <<>>
    /\ first_run = <<>>
    /\ Constructed

RemovalInit ==
    /\ dry_run = FALSE
    /\ verbose = FALSE
    /\ check_only = FALSE
    /\ list_lines = <<>>
    /\ flatpak_lines = <<>>
    /\ autoremove_lines \in RemovalReports
    /\ first_run = <<>>
    /\ Constructed

\* the runs that are compared with a second run on the same host
ReplayInit ==
    /\ dry_run \in BOOLEAN
    /\ verbose \in BOOLEAN
    /\ check_only \in BOOLEAN
    /\ list_lines = <<ListingPrefix, LineP>>
    /\ flatpak_lines = <<LineFlat>>
    /\ autoremove_lines = <<RemovedHeader, LineC>>
    /\ first_run = <<>>
    /\ Constructed

Flags == <<dry_run, verbose, check_only>>
Host == <<list_lines, flatpak_lines, autoremove_lines>>

BoolText(b) == IF b THEN "True" ELSE "False"

\* the effect of a phase method that returned r, and of the lines said after it
Returned(method, r, said) ==
    /\ ret' = [ret EXCEPT ![method] = BoolText(r.ret)]
    /\ calls' = calls \o r.calls
    /\ printed' = printed \o r.printed \o said
    /\ updatable_packages' = r.updatable
    /\ removable_packages' = r.removable

\* `return False` of full_update_and_clean, then sys.exit(1)
Abort ==
    /\ pc' = "exit"
    /\ exit_status' = 1

Main ==
    /\ pc = "main"
    /\ pc' = "check_apt_updates"
    /\ printed' = IF check_only THEN printed
                  ELSE Append(printed, Msg("Starting full system update and clean...", "", 0))
    /\ UNCHANGED <<Flags, Host, first_run, updatable_packages, removable_packages, success, ret,
                   calls, exit_status>>

\* variant: a check method's return value is not looked at
CheckedUnconditionally(method, r, next) ==
    /\ Returned(method, r, <<>>)
    /\ pc' = next
    /\ UNCHANGED <<exit_status, success>>

\* main / full_update_and_clean after a check method returned r
Checked(method, r, next) ==
    /\ Returned(method, r, <<>>)
    /\ IF check_only \/ r.ret
       THEN pc' = next /\ UNCHANGED exit_status
       ELSE Abort
    /\ UNCHANGED success

CheckAptUpdates ==
    /\ pc = "check_apt_updates"
    /\ \E o1, o2 \in Outcomes :
          Checked("check_apt_updates", check_apt_updates(o1, o2), "check_flatpak_updates")
    /\ UNCHANGED <<Flags, Host, first_run>>

CheckFlatpakUpdates ==
    /\ pc = "check_flatpak_updates"
    /\ \E o1, o2 \in Outcomes :
          Checked("check_flatpak_updates", check_flatpak_updates(o1, o2), "check_autoremove")
    /\ UNCHANGED <<Flags, Host, first_run>>

\* variant: the check-only flag is not looked at after the last check
LastCheckedAsFullRun(method, r) ==
    IF ~r.ret
    THEN /\ Returned(method, r, <<>>)
         /\ Abort
         /\ UNCHANGED success
    ELSE /\ Returned(method, r, <<Msg("=", "", 50)>>)
         /\ success' = TRUE
         /\ pc' = IF r.updatable # <<>> THEN "update_apt_packages"
                  ELSE "update_flatpak_packages"
         /\ UNCHANGED exit_status

\* after the last check: the end of main when check-only, else the start of the
\* apply phases, where `if self.updatable_packages` decides the first of them
LastChecked(method, r) ==
    IF check_only
    THEN /\ Returned(method, r, <<>>)
         /\ pc' = "exit"
         /\ exit_status' = 0
         /\ UNCHANGED success
    ELSE IF ~r.ret
    THEN /\ Returned(method, r, <<>>)
         /\ Abort
         /\ UNCHANGED success
    ELSE /\ Returned(method, r, <<Msg("=", "", 50)>>)
         /\ success' = TRUE
         /\ pc' = IF r.updatable # <<>> THEN "update_apt_packages"
                  ELSE "update_flatpak_packages"
         /\ UNCHANGED exit_status

CheckAutoremove ==
    /\ pc = "check_autoremove"
    /\ \E o1 \in Outcomes : LastChecked("check_autoremove", check_autoremove(o1))
    /\ UNCHANGED <<Flags, Host, first_run>>

\* variant: every apply method's failure clears `success`
AppliedPhaseAllCounted(method, r, counted, next) ==
    /\ Returned(method, r, <<>>)
    /\ success' = IF ~r.ret THEN FALSE ELSE success
    /\ pc' = next
    /\ UNCHANGED exit_status

\* variant: a failed apply method ends the run
AppliedPhaseStopping(method, r, counted, next) ==
    /\ Returned(method, r, <<>>)
    /\ success' = IF counted /\ ~r.ret THEN FALSE ELSE success
    /\ IF r.ret THEN pc' = next /\ UNCHANGED exit_status ELSE Abort

\* variant: `success` holds the result of the last counted apply method
AppliedPhaseLastWins(method, r, counted, next) ==
    /\ Returned(method, r, <<>>)
    /\ success' = IF counted THEN r.ret ELSE success
    /\ pc' = next
    /\ UNCHANGED exit_status

\* full_update_and_clean after an apply method returned r; counted says whether
\* its failure clears `success`
AppliedPhase(method, r, counted, next) ==
    /\ Returned(method, r, <<>>)
    /\ success' = IF counted /\ ~r.ret THEN FALSE ELSE success
    /\ pc' = next
    /\ UNCHANGED exit_status

UpdateAptPackages ==
    /\ pc = "update_apt_packages"
    /\ \E o1 \in Outcomes :
          AppliedPhase("update_apt_packages", update_apt_packages(o1), TRUE,
                       "update_flatpak_packages")
    /\ UNCHANGED <<Flags, Host, first_run>>

UpdateFlatpakPackages ==
    /\ pc = "update_flatpak_packages"
    /\ \E o1 \in Outcomes :
          AppliedPhase("update_flatpak_packages", update_flatpak_packages(o1), FALSE,
                       "clean_orphaned_packages")
    /\ UNCHANGED <<Flags, Host, first_run>>

CleanOrphanedPackages ==
    /\ pc = "clean_orphaned_packages"
    /\ \E o1 \in Outcomes :
          AppliedPhase("clean_orphaned_packages", clean_orphaned_packages(o1), TRUE,
                       "clean_cache")
    /\ UNCHANGED <<Flags, Host, first_run>>

CleanCache ==
    /\ pc = "clean_cache"
    /\ \E o1 \in Outcomes :
          AppliedPhase("clean_cache", clean_cache(o1), TRUE, "summary")
    /\ UNCHANGED <<Flags, Host, first_run>>

\* the closing lines of full_update_and_clean and sys.exit in main
Summary ==
    /\ pc = "summary"
    /\ printed' = Append(printed,
                         IF success THEN Msg("Update and clean completed successfully!", "", 0)
                         ELSE Msg("Update completed with some errors", "", 0))
    /\ ret' = [ret EXCEPT !["full_update_and_clean"] = BoolText(success)]
    /\ exit_status' = IF success THEN 0 ELSE 1
    /\ pc' = "exit"
    /\ UNCHANGED <<Flags, Host, first_run, updatable_packages, removable_packages, success, calls>>

\* the program is run a second time on the same host, in the same mode, with any
\* setting of --dry-run and --verbose; what the first run did is kept
Rerun ==
    /\ pc = "exit"
    /\ first_run = <<>>
    /\ first_run' = <<[dry_run |-> dry_run, verbose |-> verbose, calls |-> calls,
                       updatable |-> updatable_packages,
                       removable |-> removable_packages,
                       exit_status |-> exit_status]>>
    /\ dry_run' \in BOOLEAN
    /\ verbose' \in BOOLEAN
    /\ updatable_packages' = <<>>
    /\ removable_packages' = <<>>
    /\ pc' = "main"
    /\ success' = TRUE
    /\ ret' = [m \in Methods |-> "none"]
    /\ calls' = <<>>
    /\ printed' = <<>>
    /\ exit_status' = -1
    /\ UNCHANGED <<check_only, Host>>

Next ==
    \/ Main
    \/ CheckAptUpdates
    \/ CheckFlatpakUpdates
    \/ CheckAutoremove
    \/ UpdateAptPackages
    \/ UpdateFlatpakPackages
    \/ CleanOrphanedPackages
    \/ CleanCache
    \/ Summary

Spec == Init /\ [][Next]_vars

\* the steps of the apply phases
ApplyNext ==
    \/ UpdateAptPackages
    \/ UpdateFlatpakPackages
    \/ CleanOrphanedPackages
    \/ CleanCache
    \/ Summary

\* the program is sequential and every call blocks until its child exits, so a run
\* that has reached the apply phases keeps taking their steps until it ends
FairSpec == Init /\ [][Next]_vars /\ WF_vars(ApplyNext)

\* the upgrade-listing parser applied, as check_apt_updates applies it, to every
\* listing of ParserListings
ParserNext == Main \/ CheckAptUpdates

ParserSpec == ParserInit /\ [][ParserNext]_vars

\* the removal parser applied, as check_autoremove applies it, to every report of
\* RemovalReports
RemovalNext == Main \/ CheckAptUpdates \/ CheckFlatpakUpdates \/ CheckAutoremove

RemovalSpec == RemovalInit /\ [][RemovalNext]_vars

\* two runs of the program one after the other on the same host
ReplayNext == Next \/ Rerun

ReplaySpec == ReplayInit /\ [][ReplayNext]_vars

(***************************************************************************)
(* Vocabulary of the properties.                                           *)
(***************************************************************************)
Invoked(command) == \E i \in 1..Len(calls) : calls[i].command = command

FailedCall(i) == calls[i].outcome # "exit0"

Failed(command) == \E i \in 1..Len(calls) : calls[i].command = command /\ FailedCall(i)

Exited == pc = "exit"

\* the statements of full_update_and_clean from `success = True` on
ApplyPcs ==
    {"update_apt_packages", "update_flatpak_packages", "clean_orphaned_packages",
     "clean_cache", "summary"}

\* commands whose failure makes a check method return False
CheckFailCommands == {CmdAptUpdate, CmdAptList, CmdFlatpakList, CmdAutoremoveDryRun}

(***************************************************************************)
(* C1: in a full run, once the command of a check phase has failed (the    *)
(* refresh, the upgrade listing, the optional subsystem's listing with the *)
(* tool present, the removal simulation), that command is the last one     *)
(* ever invoked, the run has ended, full_update_and_clean has not returned *)
(* True and the exit status is 1.                                          *)
(***************************************************************************)
C1_CheckFailureAborts ==
    ~check_only =>
        \A i \in 1..Len(calls) :
            (calls[i].command \in CheckFailCommands /\ FailedCall(i)) =>
                /\ i = Len(calls)
                /\ Exited
                /\ exit_status = 1
                /\ ret["full_update_and_clean"] # "True"
                /\ \A m \in {"update_apt_packages", "update_flatpak_packages",
                             "clean_orphaned_packages", "clean_cache"} : ret[m] = "none"

C1_Witness ==
    /\ ~check_only
    /\ Exited
    /\ Len(calls) = 4
    /\ calls[3].command = CmdWhichFlatpak /\ ~FailedCall(3)
    /\ calls[4].command = CmdFlatpakList /\ FailedCall(4)
    /\ exit_status = 1

(***************************************************************************)
(* C2: in dry-run mode no apply command (upgrade, optional-subsystem       *)
(* apply, removal, cache clean) is ever handed to the executor, whatever   *)
(* the check phases found; and a full dry run whose check phases all       *)
(* succeeded ends with full_update_and_clean returning True, exit status 0.*)
(***************************************************************************)
C2_DryRunAppliesNothing ==
    dry_run =>
        /\ \A i \in 1..Len(calls) : calls[i].command \notin ApplyCommands
        /\ \A m \in {"update_apt_packages", "update_flatpak_packages",
                     "clean_orphaned_packages", "clean_cache"} : ret[m] # "False"
        /\ (/\ ~check_only
            /\ Exited
            /\ ret["check_apt_updates"] = "True"
            /\ ret["check_flatpak_updates"] = "True"
            /\ ret["check_autoremove"] = "True")
           => (exit_status = 0 /\ ret["full_update_and_clean"] = "True")

C2_Witness ==
    /\ dry_run
    /\ ~check_only
    /\ Exited
    /\ updatable_packages # <<>>
    /\ removable_packages # <<>>
    /\ ret["update_apt_packages"] = "True"
    /\ ret["clean_orphaned_packages"] = "True"
    /\ ret["clean_cache"] = "True"
    /\ exit_status = 0

(***************************************************************************)
(* C3: if the probe `which flatpak` reports the tool absent, then neither  *)
(* the optional subsystem's listing command nor its apply command is ever  *)
(* invoked in that run, and neither optional phase returns False.          *)
(***************************************************************************)
C3_AbsentToolSkipsBothPhases ==
    Failed(CmdWhichFlatpak) =>
        /\ ~Invoked(CmdFlatpakList)
        /\ ~Invoked(CmdFlatpakUpdate)
        /\ ret["check_flatpak_updates"] # "False"
        /\ ret["update_flatpak_packages"] # "False"

(***************************************************************************)
(* C4 as claimed: at the end of a full run that is not a dry run, the exit *)
(* status is 1 if the command of any apply phase failed, and 0 only if no  *)
(* apply phase failed.                                                     *)
(***************************************************************************)
C4_AnyApplyFailureExitsOne ==
    (~dry_run /\ ~check_only /\ Exited) =>
        /\ (\E c \in ApplyCommands : Failed(c)) => exit_status = 1
        /\ exit_status = 0 => \A c \in ApplyCommands : ~Failed(c)

\* the apply commands whose failure full_update_and_clean records
CountedApplyCommands == {CmdAptUpgrade, CmdAutoremove, CmdAutoclean}

(***************************************************************************)
(* C4 amended: at the end of a full run that is not a dry run, the exit    *)
(* status is 1 if the command of ApplyUpgrades, ApplyRemoval or CleanCache *)
(* failed, and 0 only if none of these three failed; when the check phases *)
(* succeeded the exit status is 1 only if one of the three failed, so a    *)
(* failure of the optional subsystem's apply command alone leaves it 0.    *)
(***************************************************************************)
C4_CountedApplyFailureExitsOne ==
    (~dry_run /\ ~check_only /\ Exited) =>
        /\ (\E c \in CountedApplyCommands : Failed(c)) => exit_status = 1
        /\ exit_status = 0 => \A c \in CountedApplyCommands : ~Failed(c)
        /\ (ret["check_autoremove"] = "True" /\ exit_status = 1)
              => \E c \in CountedApplyCommands : Failed(c)

C4_Witness ==
    /\ ~dry_run
    /\ ~check_only
    /\ Exited
    /\ Failed(CmdAutoremove)
    /\ ~Failed(CmdAptUpgrade)
    /\ ~Failed(CmdFlatpakUpdate)
    /\ ~Failed(CmdAutoclean)
    /\ exit_status = 1

(***************************************************************************)
(* C5: in a full run that is not a dry run, once the check phases have all *)
(* succeeded the run goes on to its end whatever the apply commands do,    *)
(* and by then the optional subsystem's apply command and the cache-clean  *)
(* command have been invoked, the removal command has been invoked if      *)
(* there are removal candidates, and the upgrade command if there are      *)
(* upgrade candidates; in particular after a failed upgrade.               *)
(***************************************************************************)
ApplyStarted == ~dry_run /\ ~check_only /\ pc \in ApplyPcs

AllAppliesAttempted ==
    /\ Exited
    /\ Invoked(CmdFlatpakUpdate)
    /\ Invoked(CmdAutoclean)
    /\ removable_packages # <<>> => Invoked(CmdAutoremove)
    /\ updatable_packages # <<>> => Invoked(CmdAptUpgrade)

C5_ApplyFailureDoesNotStopLaterApplies == ApplyStarted ~> AllAppliesAttempted

C5_Witness ==
    /\ ~dry_run
    /\ ~check_only
    /\ Exited
    /\ Failed(CmdAptUpgrade)
    /\ Failed(CmdFlatpakUpdate)
    /\ removable_packages # <<>>
    /\ AllAppliesAttempted

(***************************************************************************)
(* C6: in check-only mode, whatever the check commands do and whatever the *)
(* dry-run flag, only check commands are ever invoked, no apply method is  *)
(* called, and the exit status at the end is 0.                            *)
(***************************************************************************)
C6_CheckOnlyRunsOnlyChecks ==
    check_only =>
        /\ \A i \in 1..Len(calls) : calls[i].command \in CheckCommands
        /\ \A m \in {"update_apt_packages", "update_flatpak_packages",
                     "clean_orphaned_packages", "clean_cache",
                     "full_update_and_clean"} : ret[m] = "none"
        /\ exit_status # 1
        /\ Exited => (exit_status = 0 /\ ret["check_autoremove"] # "none")

C6_Witness ==
    /\ check_only
    /\ ~dry_run
    /\ Exited
    /\ Failed(CmdAptUpdate)
    /\ Failed(CmdAutoremoveDryRun)
    /\ exit_status = 0

(***************************************************************************)
(* C7: the upgrade command is invoked only after check_apt_updates has     *)
(* returned True in this run leaving a non-empty upgrade list, the removal *)
(* command only after check_autoremove has returned True leaving a         *)
(* non-empty removal list; no check command follows an apply command, and  *)
(* from the first apply phase on no step invokes a check command.          *)
(***************************************************************************)
C7_AppliesFollowTheirChecks ==
    /\ Invoked(CmdAptUpgrade) =>
          /\ ret["check_apt_updates"] = "True"
          /\ Invoked(CmdAptList) /\ ~Failed(CmdAptList)
          /\ updatable_packages # <<>>
    /\ Invoked(CmdAutoremove) =>
          /\ ret["check_autoremove"] = "True"
          /\ Invoked(CmdAutoremoveDryRun) /\ ~Failed(CmdAutoremoveDryRun)
          /\ removable_packages # <<>>
    /\ \A i, j \in 1..Len(calls) :
          (i < j /\ calls[i].command \in ApplyCommands)
              => calls[j].command \notin CheckCommands

\* a step that hands no check command to the executor
NoCheckCommandInStep ==
    \A i \in (Len(calls) + 1)..Len(calls') : calls'[i].command \notin CheckCommands

C7_NoRequery == [][(pc \in ApplyPcs) => NoCheckCommandInStep]_vars

C7_AppliesActOnCheckedCandidates == []C7_AppliesFollowTheirChecks /\ C7_NoRequery

C7_Witness ==
    /\ Exited
    /\ Invoked(CmdAptUpgrade)
    /\ Invoked(CmdAutoremove)
    /\ Len(calls) = 9

(***************************************************************************)
(* C8: if the package-list refresh command fails, the upgrade-listing      *)
(* command is never invoked in that run, the upgrade list stays empty, and *)
(* a run that is not check-only has ended with exit status 1.              *)
(***************************************************************************)
C8_RefreshFailure ==
    Failed(CmdAptUpdate) =>
        /\ ~Invoked(CmdAptList)
        /\ updatable_packages = <<>>
        /\ ret["check_apt_updates"] = "False"
        /\ ~check_only => (Exited /\ exit_status = 1 /\ Len(calls) = 1)

C8_Witness ==
    /\ Failed(CmdAptUpdate)
    /\ ~check_only
    /\ list_lines # <<>>
    /\ Exited
    /\ exit_status = 1

(***************************************************************************)
(* Vocabulary of the parser properties.  What a line is expected to give   *)
(* is read off the line by cutting at its first `/` and splitting what     *)
(* follows at whitespace, not by the regular expression.                   *)
(***************************************************************************)
AfterSlash(line) == SubSeq(line, Find(line, "/") + 1, Len(line))

BeforeSlash(line) == SubSeq(line, 1, Find(line, "/") - 1)

\* name, '/', a source token right after it, and at least two more tokens
PatternLine(line) ==
    /\ HasChar(line, "/")
    /\ BeforeSlash(line) # <<>>
    /\ AfterSlash(line) # <<>>
    /\ ~IsSpace(AfterSlash(line)[1])
    /\ Len(Words(AfterSlash(line))) >= 3

\* a line of the shape `pkg/src cur avail extra...`
WellFormedLine(line) ==
    /\ PatternLine(line)
    /\ \A k \in 1..Len(BeforeSlash(line)) : ~IsSpace(BeforeSlash(line)[k])

ExpectedOf(line) ==
    [name      |-> BeforeSlash(line),
     current   |-> Words(AfterSlash(line))[2],
     available |-> Words(AfterSlash(line))[3]]

ExpectedOfAll(lines) == [i \in 1..Len(lines) |-> ExpectedOf(lines[i])]

ListingParsed == ret["check_apt_updates"] = "True"

AllWellFormed == \A i \in 1..Len(list_lines) : WellFormedLine(list_lines[i])

(***************************************************************************)
(* C9 as claimed: for every listing made of well-formed lines              *)
(* `pkg/src cur avail extra...` the parser leaves one candidate per line,  *)
(* in line order, with name = pkg, current = cur, available = avail; the   *)
(* empty listing gives the empty list.                                     *)
(***************************************************************************)
C9_WellFormedLinesParsed ==
    (ListingParsed /\ AllWellFormed) => updatable_packages = ExpectedOfAll(list_lines)

(***************************************************************************)
(* C9 amended: the same, for every listing made of well-formed lines none  *)
(* of which begins with the text 'Listing...'; a listing command that      *)
(* succeeds never makes check_apt_updates fail, and the empty listing      *)
(* gives the empty list.                                                   *)
(***************************************************************************)
C9_WellFormedLinesParsedUnlessIntroPrefix ==
    /\ (Invoked(CmdAptList) /\ ~Failed(CmdAptList)) => ListingParsed
    /\ (ListingParsed /\ list_lines = <<>>) => updatable_packages = <<>>
    /\ (/\ ListingParsed
        /\ AllWellFormed
        /\ \A i \in 1..Len(list_lines) : ~StartsWith(list_lines[i], ListingPrefix))
       => updatable_packages = ExpectedOfAll(list_lines)

C9_Witness ==
    /\ ListingParsed
    /\ list_lines = <<LineQ, LineP, LineQ>>
    /\ Len(updatable_packages) = 3
    /\ updatable_packages[1].name = <<"q">>
    /\ updatable_packages[2] = [name |-> <<"p">>, current |-> <<"1">>, available |-> <<"2">>]

\* the lines of the listing as the parser receives them
ListingLinesSeen == Split(Strip(Stdout(list_lines)), NL)

\* C10 as claimed: only the introduction line itself is set aside
ProducesCandidateClaimed(line) ==
    /\ HasChar(line, "/")
    /\ line # ListingPrefix
    /\ PatternLine(line)

\* as the code has it: every line that begins with the introduction text is set aside
ProducesCandidate(line) ==
    /\ HasChar(line, "/")
    /\ ~StartsWith(line, ListingPrefix)
    /\ PatternLine(line)

(***************************************************************************)
(* C10 as claimed: a line without '/', the line 'Listing...' itself, and a *)
(* line that does not match the pattern give no candidate and no error;    *)
(* every other line gives exactly one candidate.                           *)
(***************************************************************************)
C10_OtherLinesGiveOneCandidate ==
    ListingParsed =>
        updatable_packages =
            ExpectedOfAll(SelectSeq(ListingLinesSeen, ProducesCandidateClaimed))

(***************************************************************************)
(* C10 amended: a line without '/', a line that begins with the text       *)
(* 'Listing...', and a line that does not match the pattern give no        *)
(* candidate and no error; every other line gives exactly one candidate,   *)
(* so 2 matching lines and 1 malformed line give exactly 2 candidates.     *)
(***************************************************************************)
C10_SkippedLinesGiveNoCandidate ==
    /\ (Invoked(CmdAptList) /\ ~Failed(CmdAptList)) => ListingParsed
    /\ ListingParsed =>
          updatable_packages =
              ExpectedOfAll(SelectSeq(ListingLinesSeen, ProducesCandidate))

C10_Witness ==
    /\ ListingParsed
    /\ list_lines = <<LineP, LineShort, LineQ>>
    /\ Len(updatable_packages) = 2
    /\ updatable_packages[2].name = <<"q">>

(***************************************************************************)
(* Vocabulary of the removal-report properties.                            *)
(***************************************************************************)
\* check_autoremove has returned after a successful dry run
ReportParsed == ret["check_autoremove"] = "True"

IsIndented(line) == StartsWith(line, Indent)

\* an indented line that holds exactly one name
SingleNameLine(line) == IsIndented(line) /\ Len(Words(line)) = 1

HasHeader(line) == Contains(line, RemovedHeader)

NoHeader == \A i \in 1..Len(autoremove_lines) : ~HasHeader(autoremove_lines[i])

\* the report is the header followed by single-name indented lines only
HeaderThenSingleNames ==
    /\ autoremove_lines # <<>>
    /\ autoremove_lines[1] = RemovedHeader
    /\ \A i \in 2..Len(autoremove_lines) : SingleNameLine(autoremove_lines[i])

FirstNames(lines) == [i \in 1..Len(lines) |-> Words(lines[i])[1]]

\* a sequence without the later occurrences of its elements
RECURSIVE FirstOccurrences(_)
FirstOccurrences(s) ==
    IF s = <<>> THEN <<>>
    ELSE <<Head(s)>> \o SelectSeq(FirstOccurrences(Tail(s)), LAMBDA x : x # Head(s))

DryRunSucceeded ==
    \E i \in 1..Len(calls) :
        calls[i].command = CmdAutoremoveDryRun /\ calls[i].outcome = "exit0"

\* C11: a report that is the header followed by N indented lines of one name each
\* gives exactly those names, in the order of the report, each once (the first
\* occurrence kept); a report without the header gives the empty list, and the
\* check still returns True.
C11_SingleNameReportParsed ==
    /\ (ReportParsed /\ HeaderThenSingleNames)
          => removable_packages = FirstOccurrences(FirstNames(Tail(autoremove_lines)))
    /\ (DryRunSucceeded /\ NoHeader) => (ReportParsed /\ removable_packages = <<>>)

C11_Witness ==
    /\ ReportParsed
    /\ autoremove_lines = <<RemovedHeader, LineA, LineC, LineA>>
    /\ removable_packages = << <<"a">>, <<"c">> >>

\* the lines of the report that list names: the indented lines that directly
\* follow the first header line
HeaderLines == {i \in 1..Len(autoremove_lines) : HasHeader(autoremove_lines[i])}

FirstHeader == CHOOSE h \in HeaderLines : \A k \in HeaderLines : h <= k

ListingSection ==
    IF HeaderLines = {} THEN {}
    ELSE {i \in (FirstHeader + 1)..Len(autoremove_lines) :
            \A j \in (FirstHeader + 1)..i : IsIndented(autoremove_lines[j])}

NamesOn(line) == {Words(line)[k] : k \in 1..Len(Words(line))}

ListedNames == UNION {NamesOn(autoremove_lines[i]) : i \in ListingSection}

FoundRemovable(n) ==
    \E i \in 1..Len(printed) :
        printed[i] = Msg("Found packages that can be removed:", "", n)

\* C12: when the indented lines of the report list several names per line, every
\* listed name is a removal candidate, and a check-only run reports as many
\* removable packages as there are distinct listed names (3 for three names on
\* two lines).
C12_EveryListedNameCounted ==
    ReportParsed =>
        /\ \A name \in ListedNames : InSeq(name, removable_packages)
        /\ (check_only /\ ListedNames # {}) => FoundRemovable(Cardinality(ListedNames))

(***************************************************************************)
(* Vocabulary of the properties of the final status.                       *)
(***************************************************************************)
\* the apply methods whose False result clears `success`
CountedApplyMethods == {"update_apt_packages", "clean_orphaned_packages", "clean_cache"}

\* a full run that applies for real, ended, with all three checks returned True
AppliedRunEnded ==
    /\ Exited
    /\ ~check_only
    /\ ~dry_run
    /\ ret["check_autoremove"] = "True"

\* C13: a full run without dry-run whose checks all succeeded ends with status 1
\* exactly when update_apt_packages, clean_orphaned_packages or clean_cache
\* returned False; a False from update_flatpak_packages alone leaves status 0.
C13_FailureIffCountedApplyFailed ==
    AppliedRunEnded =>
        /\ exit_status = 1 <=> \E m \in CountedApplyMethods : ret[m] = "False"
        /\ exit_status \in {0, 1}
        /\ ret["full_update_and_clean"] = BoolText(exit_status = 0)

C13_Witness ==
    /\ AppliedRunEnded
    /\ ret["update_flatpak_packages"] = "False"
    /\ ret["update_apt_packages"] = "True"
    /\ ret["clean_orphaned_packages"] = "True"
    /\ ret["clean_cache"] = "True"
    /\ exit_status = 0

(***************************************************************************)
(* Vocabulary of the properties of the order of the commands.              *)
(***************************************************************************)
\* the commands in the order of the phases that invoke them
CommandOrder ==
    <<CmdAptUpdate, CmdAptList, CmdWhichFlatpak, CmdFlatpakList, CmdAutoremoveDryRun,
      CmdAptUpgrade, CmdFlatpakUpdate, CmdAutoremove, CmdAutoclean>>

Rank(command) == CHOOSE k \in 1..Len(CommandOrder) : CommandOrder[k] = command

\* the check phase of a check command: 1 upgrades, 2 optional subsystem, 3 removable
CheckPhaseOf(command) ==
    IF command \in {CmdAptUpdate, CmdAptList} THEN 1
    ELSE IF command \in {CmdWhichFlatpak, CmdFlatpakList} THEN 2
    ELSE 3

\* call i is a failed command that makes one of the first two check methods return False
FailedCheckCall(i) ==
    /\ calls[i].command \in {CmdAptUpdate, CmdAptList, CmdFlatpakList}
    /\ FailedCall(i)

LaterCheckCall(i, j) ==
    /\ i < j
    /\ calls[j].command \in CheckCommands
    /\ CheckPhaseOf(calls[j].command) > CheckPhaseOf(calls[i].command)

\* C14: in a check-only run, once the command of the upgrade check or of the
\* optional-subsystem check has failed, no command of a later check phase is
\* invoked.
C14_CheckOnlyFailedCheckAborts ==
    check_only =>
        \A i, j \in 1..Len(calls) : FailedCheckCall(i) => ~LaterCheckCall(i, j)

\* C15: the commands of a run are invoked in the fixed order of the phases
\* (refresh, upgrade listing, probe, optional-subsystem listing, removal dry run,
\* upgrade, optional-subsystem update, removal, cache clean): no command is
\* invoked after a command of a later phase, and none is invoked twice.
C15_CommandsInPhaseOrder ==
    \A i, j \in 1..Len(calls) :
        i < j => Rank(calls[i].command) < Rank(calls[j].command)

C15_Witness ==
    /\ Exited
    /\ [i \in 1..Len(calls) |-> calls[i].command] = CommandOrder

\* the lines of the report that come after its first header line
AfterHeader == IF HeaderLines = {} THEN {} ELSE (FirstHeader + 1)..Len(autoremove_lines)

\* the first element of a set of line numbers, or the number after the last line
FirstOf(S) ==
    IF S = {} THEN Len(autoremove_lines) + 1 ELSE CHOOSE i \in S : \A k \in S : i <= k

IsBlank(line) == \A k \in 1..Len(line) : IsSpace(line[k])

\* every returned name stands on a line after the first header and before line stop
CollectedBefore(stop) ==
    \A k \in 1..Len(removable_packages) :
        \E i \in AfterHeader :
            i < stop /\ removable_packages[k] \in NamesOn(autoremove_lines[i])

\* C16 as stated: collection stops at the first non-empty line after the header
\* that is not indented by 3 spaces; no name on that line, on a later line or on
\* a line before the header is returned.
C16_StopsAtFirstUnindentedLine ==
    ReportParsed =>
        CollectedBefore(FirstOf({i \in AfterHeader :
                                   /\ autoremove_lines[i] # <<>>
                                   /\ ~IsIndented(autoremove_lines[i])}))

\* C16 amended: collection stops at the first line after the header that is not
\* blank, is not indented by 3 spaces and does not contain the header text; no
\* name on that line, on a later line (also when a further header and indented
\* lines follow) or on a line before the first header is returned.
C16_StopsAtFirstUnindentedTextLine ==
    ReportParsed =>
        CollectedBefore(FirstOf({i \in AfterHeader :
                                   /\ ~IsBlank(autoremove_lines[i])
                                   /\ ~IsIndented(autoremove_lines[i])
                                   /\ ~HasHeader(autoremove_lines[i])}))

C16_Witness ==
    /\ ReportParsed
    /\ autoremove_lines = <<RemovedHeader, LineDone, RemovedHeader, LineC>>
    /\ removable_packages = <<>>

(***************************************************************************)
(* Vocabulary of the properties that compare two runs on the same host.    *)
(***************************************************************************)
\* the second run has ended and the first is on record
BothRunsEnded == first_run # <<>> /\ Exited

CommandsOf(log) == [i \in 1..Len(log) |-> log[i].command]

Succeeded(call) == call.outcome = "exit0"

\* every command invoked in both runs succeeded in both or failed in both
SameSuccesses(log1, log2) ==
    \A i \in 1..Len(log1), j \in 1..Len(log2) :
        log1[i].command = log2[j].command => (Succeeded(log1[i]) <=> Succeeded(log2[j]))

\* every command invoked in both runs had the same outcome in both
SameOutcomes(log1, log2) ==
    \A i \in 1..Len(log1), j \in 1..Len(log2) :
        log1[i].command = log2[j].command => log1[i].outcome = log2[j].outcome

\* some command failed in both runs, by a non-zero exit in one and by a launch
\* failure in the other
FailureKindsDiffer(log1, log2) ==
    \E i \in 1..Len(log1), j \in 1..Len(log2) :
        /\ log1[i].command = log2[j].command
        /\ {log1[i].outcome, log2[j].outcome} = {"nonzero", "launch_error"}

SameFlags == first_run[1].dry_run = dry_run /\ first_run[1].verbose = verbose

\* the method that invokes a command
MethodOf(command) ==
    IF command \in {CmdAptUpdate, CmdAptList} THEN "check_apt_updates"
    ELSE IF command \in {CmdWhichFlatpak, CmdFlatpakList} THEN "check_flatpak_updates"
    ELSE IF command = CmdAutoremoveDryRun THEN "check_autoremove"
    ELSE IF command = CmdAptUpgrade THEN "update_apt_packages"
    ELSE IF command = CmdFlatpakUpdate THEN "update_flatpak_packages"
    ELSE IF command = CmdAutoremove THEN "clean_orphaned_packages"
    ELSE "clean_cache"

\* what a method returns when its command did not succeed
ReturnedOnFailure(command) == IF command = CmdWhichFlatpak THEN "True" ELSE "False"

\* C17: a command that cannot be launched is a failed command like one that exits
\* non-zero: the method that invoked it returns what it returns on failure, and
\* two runs with the same flags whose commands succeed and fail alike, whatever
\* the kind of each failure, invoke the same commands, leave the same candidate
\* lists and end with the same status.
C17_LaunchFailureIsFailure ==
    /\ \A i \in 1..Len(calls) :
          FailedCall(i) => ret[MethodOf(calls[i].command)] = ReturnedOnFailure(calls[i].command)
    /\ (BothRunsEnded /\ SameFlags /\ SameSuccesses(first_run[1].calls, calls))
          => /\ CommandsOf(first_run[1].calls) = CommandsOf(calls)
             /\ first_run[1].updatable = updatable_packages
             /\ first_run[1].removable = removable_packages
             /\ first_run[1].exit_status = exit_status

C17_Witness ==
    /\ BothRunsEnded
    /\ SameFlags
    /\ ~check_only
    /\ SameSuccesses(first_run[1].calls, calls)
    /\ FailureKindsDiffer(first_run[1].calls, calls)
    /\ Invoked(CmdAutoclean)
    /\ exit_status = 1

(***************************************************************************)
(* Vocabulary of the properties of what a step writes.                     *)
(***************************************************************************)
ListsUnchanged == UNCHANGED <<updatable_packages, removable_packages>>

\* what the step of each statement may do to the two candidate lists
ListsWrittenByOwnCheckOnly ==
    /\ (pc = "check_apt_updates") =>
          /\ UNCHANGED removable_packages
          /\ (ret'["check_apt_updates"] = "False") => UNCHANGED updatable_packages
    /\ (pc = "check_autoremove") =>
          /\ UNCHANGED updatable_packages
          /\ (ret'["check_autoremove"] = "False") => UNCHANGED removable_packages
    /\ (pc \notin {"check_apt_updates", "check_autoremove"}) => ListsUnchanged

\* C18: the apply phases and the optional-subsystem check leave both candidate
\* lists as they are; the upgrade check writes the upgrade list only and the
\* removable check the removal list only; a check that fails writes neither.
C18_ListsWrittenByOwnCheckOnly == [][ListsWrittenByOwnCheckOnly]_vars

C18_Witness ==
    /\ Exited
    /\ Invoked(CmdAptUpgrade)
    /\ Invoked(CmdFlatpakUpdate)
    /\ Invoked(CmdAutoremove)
    /\ Invoked(CmdAutoclean)
    /\ ~Failed(CmdAptUpgrade)
    /\ updatable_packages # <<>>
    /\ removable_packages # <<>>

CheckCallsOf(log) == SelectSeq(log, LAMBDA call : call.command \in CheckCommands)

\* C19: two runs on the same host whose commands have the same outcomes invoke
\* the same check commands and leave the same candidate lists, whatever their
\* --dry-run and --verbose flags; if they differ in --verbose only they also
\* invoke the same apply commands and end with the same status.
C19_FlagsDoNotAffectChecks ==
    (BothRunsEnded /\ SameOutcomes(first_run[1].calls, calls))
       => /\ CheckCallsOf(first_run[1].calls) = CheckCallsOf(calls)
          /\ first_run[1].updatable = updatable_packages
          /\ first_run[1].removable = removable_packages
          /\ (first_run[1].dry_run = dry_run)
                => (first_run[1].calls = calls /\ first_run[1].exit_status = exit_status)

C19_Witness ==
    /\ BothRunsEnded
    /\ SameOutcomes(first_run[1].calls, calls)
    /\ first_run[1].dry_run # dry_run
    /\ first_run[1].verbose # verbose
    /\ ~check_only
    /\ updatable_packages # <<>>
    /\ removable_packages # <<>>
    /\ Len(first_run[1].calls) # Len(calls)

====
